---- MODULE Spec2Model ----
(***************************************************************************)
(* Grid-indexed climate ingestion and aggregation pipeline.                *)
(*                                                                         *)
(*   scripts/compute_et0.py       ET0 engine (pure function)               *)
(*   scripts/fetch_nasa_power.py  weather fetcher (one run over the grid)  *)
(*   scripts/ingest_climate.py    ingestion of daily records               *)
(*   scripts/aggregate_7days.py   7-day rolling aggregator                 *)
(*                                                                         *)
(* Numbers.  Every measurement is an integer number of hundredths of its   *)
(* unit (15.5 degrees C is 1550, 22.5 MJ/m2 is 2250, -999.0 is -99900).    *)
(* A Python None / SQL NULL is the empty tuple <<>>, a known value v is    *)
(* the one-element tuple <<v>>.  Dates are day numbers.                    *)
(***************************************************************************)
EXTENDS Integers, Sequences, FiniteSets, TLC

VARIABLES
    \* ---- compute_et0 called on one day of a weather series
    et0_pc,          \* "call" | "returned" | "raised" | "appended" | "idle"
    et0_day,         \* the day dict handed to compute_et0
    et0_out,         \* what compute_et0 returned or raised
    et0_row,         \* the tuple appended to daily_data (<<>> before)
    \* ---- the store (committed content)
    climate_daily,   \* set of daily rows, unique on (geohash, date)
    \* ---- one run of ingest_climate.py main()
    ing_pc,          \* "idle" | "insert" | "commit" | "done" | "failed"
    ing_daily,       \* daily_data: one tuple per day of the input, in order
    ing_unique,      \* daily_data_unique
    ing_i,           \* start index (0-based) of the next chunk
    ing_total,       \* total_inserted
    ing_tx,          \* climate_daily as the open transaction sees it
    ing_runs,        \* runs started so far
    grid_results,    \* results as ingest_grid_points got it (<<>> if not called)
    \* ---- the store, continued
    climate_7days,   \* set of weekly rows, unique on (geohash, end_date)
    now,             \* the store's clock: NOW() of the latest aggregation
    \* ---- one run of aggregate_7days.py main()
    agg_pc,          \* "idle" | "dates" | "done" | "failed" | "exit"
    dates_to_process,\* the target dates not processed yet
    min_days,        \* args.min_days of the run
    agg_date,        \* args.date of the run (<<>> without --date)
    agg_backfill,    \* args.backfill of the run
    \* ---- one run of fetch_nasa_power.py over the grid points
    fetch_pc,        \* "idle" | "pool" | "loop" | "saved" | "crashed"
    futures,         \* what became of the tasks submitted to the pool
    fetch_i,         \* grid points fetched so far
    response,        \* the reply to the latest request
    all_results,
    successful_fetches,
    saved,           \* the document written: <<>> before, then <<document>>
    \* ---- the store, continued
    grid_100m,       \* set of grid rows, unique on geohash
    \* ---- one run of 02_create_grid.py
    gen_pc,          \* "idle" | "loop" | "done"
    gen_box,         \* min_lat, max_lat, min_lon, max_lon
    gen_lat,         \* lat of the loops
    gen_lon,         \* lon of the loops
    features,        \* the GeoJSON features, in the order of their creation
    gen_tx,          \* grid_100m as the open transaction sees it
    gen_runs,        \* runs started so far
    \* ---- history, for stating the properties
    daily_stamp      \* the clock when climate_daily last grew

et0_vars == <<et0_pc, et0_day, et0_out, et0_row>>

ing_vars == <<ing_pc, ing_daily, ing_unique, ing_i, ing_total, ing_tx, ing_runs,
              grid_results>>

agg_vars == <<climate_7days, now, agg_pc, dates_to_process, min_days, agg_date,
              agg_backfill>>

fetch_vars == <<fetch_pc, futures, fetch_i, response, all_results,
                successful_fetches, saved>>

gen_vars == <<gen_pc, gen_box, gen_lat, gen_lon, features, gen_tx, gen_runs>>

vars == <<et0_pc, et0_day, et0_out, et0_row, climate_daily,
          ing_pc, ing_daily, ing_unique, ing_i, ing_total, ing_tx, ing_runs,
          grid_results,
          climate_7days, now, agg_pc, dates_to_process, min_days, agg_date,
          agg_backfill,
          fetch_pc, futures, fetch_i, response, all_results,
          successful_fetches, saved, grid_100m,
          gen_pc, gen_box, gen_lat, gen_lon, features, gen_tx, gen_runs,
          daily_stamp>>

(***************************************************************************)
(* Optional values                                                         *)
(***************************************************************************)
None == <<>>

Some(v) == <<v>>

IsNone(x) == x = <<>>

Val(x) == x[1]

Opt(S) == {None} \cup {Some(v) : v \in S}

\* Python round(x, 2) / SQL ROUND(x, 2) of the quotient a / b, in hundredths:
\* the nearest integer to a / b, halves away from zero (b # 0).
RoundDiv(a, b) ==
    LET na == IF a < 0 THEN -a ELSE a
        nb == IF b < 0 THEN -b ELSE b
        q  == (2 * na + nb) \div (2 * nb)
    IN  IF (a < 0) # (b < 0) THEN -q ELSE q

(***************************************************************************)
(* scripts/compute_et0.py                                                  *)
(***************************************************************************)
\* What a call returns: exc = "" and a value, or the exception it raises.
Return(v) == [exc |-> "", value |-> v]

Raise(e) == [exc |-> e, value |-> None]

\* 0.6108 * exp(17.27 T / (T + 237.3)) in 1e-4 kPa, tabulated from the source's
\* own expression at the mean temperatures the model draws (T in 0.01 C).
SvpTable ==
    (1550 :> 17610) @@ (2190 :> 26279) @@ (2830 :> 38465)

\* math.exp raises OverflowError above 709.78; the exponent 17.27 T / (T + 237.3)
\* is that large only for T just below -237.3 (both factors negative).
exp_overflows(T) ==
    /\ T + 23730 < 0
    /\ 1727 * (-T) > 70978 * (-(T + 23730))

\* The exception saturation_vapor_pressure(T) raises, "" when it returns.
saturation_vapor_pressure_exc(T) ==
    IF T + 23730 = 0 THEN "ZeroDivisionError"
    ELSE IF exp_overflows(T) THEN "OverflowError"
    ELSE ""

\* Its value (1e-4 kPa) where it returns.
saturation_vapor_pressure(T) == SvpTable[T]

\* 4098 es / (T + 237.3)^2, in 1e-5 kPa/C.
delta_svp(T) ==
    (((4098 * saturation_vapor_pressure(T)) \div 10) * 100)
        \div (((T + 23730) * (T + 23730)) \div 10000)

\* psychrometric_constant(ALTITUDE_DEFAULT) = 0.06624798..., in 1e-6 kPa/C.
psychrometric_constant == 66248

\* The try block without max(et0, 0).
penman_monteith_unclamped(tmean, solar_rad, rh, wind) ==
    IF tmean + 27300 = 0 THEN None
    ELSE
    LET es    == saturation_vapor_pressure(tmean)
        ea    == (es * rh) \div 10000
        delta == delta_svp(tmean)
        gamma == psychrometric_constant
        numerator1  == ((delta * solar_rad) \div 1000) * 408
        k           == 900000000 \div (tmean + 27300)
        gk          == (gamma * (k \div 10)) \div 1000
        numerator2  == ((((gk * wind) \div 10000) * (es - ea)) \div 10)
        denominator == delta + ((gamma * (10000 + 34 * wind)) \div 100000)
    IN  IF denominator = 0 THEN None
        ELSE Some(RoundDiv(numerator1 + numerator2, denominator))

\* The try block of compute_et0 (lines 62-72) for a mean temperature at which
\* the vapour pressure terms returned: the rounded, clamped ET0 in 0.01 mm, or
\* None when a division by zero is caught.
penman_monteith(tmean, solar_rad, rh, wind) ==
    IF tmean + 27300 = 0 THEN None               \* 900 / (tmean + 273)
    ELSE
    LET es    == saturation_vapor_pressure(tmean)
        ea    == (es * rh) \div 10000
        delta == delta_svp(tmean)
        gamma == psychrometric_constant
        numerator1  == ((delta * solar_rad) \div 1000) * 408
        k           == 900000000 \div (tmean + 27300)
        gk          == (gamma * (k \div 10)) \div 1000
        numerator2  == ((((gk * wind) \div 10000) * (es - ea)) \div 10)
        denominator == delta + ((gamma * (10000 + 34 * wind)) \div 100000)
    IN  IF denominator = 0 THEN None
        ELSE LET et0 == RoundDiv(numerator1 + numerator2, denominator)
             IN  Some(IF et0 > 0 THEN et0 ELSE 0)

\* compute_et0 without the input validation of lines 41-43.
compute_et0_unvalidated(tmin, tmax, solar_rad, rh, wind) ==
    IF \E x \in {tmin, tmax, solar_rad, rh, wind} : IsNone(x) THEN Return(None)
    ELSE
    LET tmean == (Val(tmin) + Val(tmax)) \div 2
        exc   == saturation_vapor_pressure_exc(tmean)
    IN  IF exc # "" THEN Raise(exc)
        ELSE Return(penman_monteith(tmean, Val(solar_rad), Val(rh), Val(wind)))

compute_et0(tmin, tmax, solar_rad, rh, wind) ==
    IF \E x \in {tmin, tmax, solar_rad, rh, wind} : IsNone(x) THEN Return(None)
    ELSE IF Val(solar_rad) < 0 THEN Return(None)
    ELSE
    LET tmean == (Val(tmin) + Val(tmax)) \div 2
        exc   == saturation_vapor_pressure_exc(tmean)
    IN  IF exc # "" THEN Raise(exc)              \* lines 48-52, outside the try
        ELSE Return(penman_monteith(tmean, Val(solar_rad), Val(rh), Val(wind)))

(***************************************************************************)
(* Inputs of the model                                                     *)
(***************************************************************************)
\* Cell identifiers.
Cells == {"g1", "g2"}

\* One day of a fetched series, without its date.
DayA == [tmin |-> Some(1550), tmax |-> Some(2830), radiation |-> Some(2250),
         rain |-> Some(120), rh |-> Some(6500), wind |-> Some(210)]

DayB == [tmin |-> Some(2830), tmax |-> Some(2830), radiation |-> Some(1000),
         rain |-> Some(0), rh |-> Some(12000), wind |-> Some(400)]

\* tmin unknown, the rest known.
DayN == [tmin |-> None, tmax |-> Some(1550), radiation |-> Some(500),
         rain |-> Some(300), rh |-> Some(6500), wind |-> Some(0)]

\* A day whose mean temperature is -237.3.
DayX == [tmin |-> Some(-23730), tmax |-> Some(-23730), radiation |-> Some(2250),
         rain |-> Some(120), rh |-> Some(6500), wind |-> Some(210)]

WithDate(d, v) ==
    [date |-> d, tmin |-> v.tmin, tmax |-> v.tmax, radiation |-> v.radiation,
     rain |-> v.rain, rh |-> v.rh, wind |-> v.wind]

MinOf(S) == CHOOSE x \in S : \A y \in S : x <= y

MaxOf(S) == CHOOSE x \in S : \A y \in S : x >= y

\* Sequences over S of length lo..hi.
SeqsOf(S, lo, hi) == UNION {[1..n -> S] : n \in lo..hi}

(***************************************************************************)
(* scripts/fetch_nasa_power.py                                             *)
(***************************************************************************)
\* The source's "no data" value, -999.0.
Sentinel == -99900

\* The six series of a reply, in the order fetch_data reads them.
Params == <<"T2M_MIN", "T2M_MAX", "ALLSKY_SFC_SW_DWN", "PRECTOTCORR", "RH2M", "WS2M">>

ParamSet == {Params[k] : k \in 1..Len(Params)}

\* The replies caught by "except requests.RequestException" (lines 28-33).
RequestErrors == {"connection_error", "timeout", "http_error"}

\* A comparison with the wrong constant (-9999).
normalize_wrong_sentinel(v) == IF v = -999900 THEN None ELSE Some(v)

\* None if the value is the sentinel, else the value (lines 45-50).
normalize(v) == IF v = Sentinel THEN None ELSE Some(v)

\* fetch_data(lat, lon, days) for one reply of the remote source.
\*   kind "not_json"      response.json() raises, outside the try
\*   kind "no_parameter"  a JSON body without properties.parameter
\*   kind "ok"            a parameter object holding the series in `present`
fetch_data(reply) ==
    IF reply.kind \in RequestErrors THEN Return(<<>>)
    ELSE IF reply.kind = "not_json" THEN Raise("JSONDecodeError")
    ELSE IF reply.kind = "no_parameter" \/ "T2M_MIN" \notin reply.present
         THEN Return(<<>>)
    ELSE IF Len(reply.series["T2M_MIN"]) > 0 /\ reply.present # ParamSet
         THEN Raise("KeyError")
    ELSE Return([j \in 1..Len(reply.series["T2M_MIN"]) |->
            [date |-> j,
             tmin |-> normalize(reply.series["T2M_MIN"][j]),
             tmax |-> normalize(reply.series["T2M_MAX"][j]),
             radiation |-> normalize(reply.series["ALLSKY_SFC_SW_DWN"][j]),
             rain |-> normalize(reply.series["PRECTOTCORR"][j]),
             rh |-> normalize(reply.series["RH2M"][j]),
             wind |-> normalize(reply.series["WS2M"][j])]])

\* The sample line of lines 136-138 formats tmin and tmax with :.1f, which
\* raises TypeError on None.
sample_raises(daily_data) ==
    IsNone(daily_data[1].tmin) \/ IsNone(daily_data[1].tmax)

\* Lines 111-112: every task is submitted as fetch_data(point), one argument
\* short, so each future holds a TypeError and issues no request; the with
\* block waits for them and nobody reads them.
FetchPool(grid_points) ==
    /\ fetch_pc = "pool"
    /\ futures' = [k \in 1..grid_points |-> "TypeError"]
    /\ fetch_pc' = "loop"
    /\ UNCHANGED <<fetch_i, response, all_results, successful_fetches, saved>>

\* One pass of the loop of lines 114-140, for the reply the request gets.
FetchPoint(grid_points, replies) ==
    /\ fetch_pc = "loop"
    /\ fetch_i < grid_points
    /\ fetch_i' = fetch_i + 1
    /\ \E reply \in replies :
          /\ response' = reply
          /\ LET daily_data == fetch_data(reply)
                 result_entry == [geohash |-> fetch_i + 1,
                                  weather_data |-> daily_data.value]
             IN  IF daily_data.exc # ""
                 THEN \* nothing catches it: the process ends with a traceback
                      /\ fetch_pc' = "crashed"
                      /\ UNCHANGED <<all_results, successful_fetches>>
                 ELSE IF daily_data.value = <<>>
                 THEN /\ fetch_pc' = "loop"
                      /\ UNCHANGED <<all_results, successful_fetches>>
                 ELSE /\ successful_fetches' = successful_fetches + 1
                      /\ all_results' = Append(all_results, result_entry)
                      /\ fetch_pc' = IF sample_raises(daily_data.value)
                                     THEN "crashed" ELSE "loop"
    /\ UNCHANGED <<futures, saved>>

\* A document that reports every grid point as fetched.
FetchSave_all_fetched(grid_points) ==
    /\ fetch_pc = "loop"
    /\ fetch_i = grid_points
    /\ saved' = Some([metadata |->
                         [total_grid_points |-> grid_points,
                          successful_fetches |-> grid_points,
                          failed_fetches |-> 0],
                      results |-> all_results])
    /\ fetch_pc' = "saved"
    /\ UNCHANGED <<futures, fetch_i, response, all_results, successful_fetches>>

\* Lines 142-154: the document is written after the last grid point.
FetchSave(grid_points) ==
    /\ fetch_pc = "loop"
    /\ fetch_i = grid_points
    /\ saved' = Some([metadata |->
                         [total_grid_points |-> grid_points,
                          successful_fetches |-> successful_fetches,
                          failed_fetches |-> grid_points - successful_fetches],
                      results |-> all_results])
    /\ fetch_pc' = "saved"
    /\ UNCHANGED <<futures, fetch_i, response, all_results, successful_fetches>>

(***************************************************************************)
(* scripts/02_create_grid.py                                               *)
(*                                                                         *)
(* Coordinates are in millionths of a degree.  An identifier is the pair   *)
(* of the latitude index and the longitude index of the precision-7        *)
(* geohash cell (the 35 bits of the base-32 string, de-interleaved).       *)
(***************************************************************************)
\* GRID_SIZE = 0.001 degree.
GRID_SIZE == 1000

\* The index of x in the division of a 180 (or 360) degree range, starting
\* at -offset, in 2^17 (or 2^18) equal parts: floor((x + offset) * 512 /
\* 703125), computed without leaving 32 bits.
geohash_index(x, offset) ==
    LET a == x + offset
    IN  512 * (a \div 703125) + (512 * (a % 703125)) \div 703125

\* geohash2.encode(lat, lon, precision=7)
geohash_encode(lat, lon) ==
    <<geohash_index(lat, 90000000), geohash_index(lon, 180000000)>>

\* box(minx, miny, maxx, maxy): the ring of the rectangle, closed.
box(minx, miny, maxx, maxy) ==
    <<<<maxx, miny>>, <<maxx, maxy>>, <<minx, maxy>>, <<minx, miny>>,
      <<maxx, miny>>>>

\* A cell of half the edge length.
cell_polygon_half(lat, lon) ==
    box(lon, lat, lon + GRID_SIZE \div 2, lat + GRID_SIZE \div 2)

\* Line 64: the square of edge GRID_SIZE whose lower-left corner is
\* (lat, lon).
cell_polygon(lat, lon) == box(lon, lat, lon + GRID_SIZE, lat + GRID_SIZE)

center_of(x) == x + GRID_SIZE \div 2

\* The row of grid_100m (created_at left out).
grid_row(geohash, lat, lon, geom) ==
    [geohash |-> geohash, lat |-> lat, lon |-> lon, geom |-> geom]

\* Lines 74-83: the GeoJSON feature of the cell.
feature_of(lat, lon) ==
    [geometry |-> cell_polygon(lat, lon),
     geohash |-> geohash_encode(center_of(lat), center_of(lon)),
     center_lat |-> center_of(lat),
     center_lon |-> center_of(lon)]

GridKeys(table) == {r.geohash : r \in table}

\* ON CONFLICT (geohash) DO UPDATE: the row replaces the stored one.
grid_insert_do_update(table, row) ==
    {r \in table : r.geohash # row.geohash} \cup {row}

\* Lines 67-71: INSERT ... ON CONFLICT (geohash) DO NOTHING.
grid_insert_do_nothing(table, row) ==
    IF row.geohash \in GridKeys(table) THEN table ELSE table \cup {row}

\* The starting values lo and step counts n, among those of the model, for
\* which the binary floating-point sum lo + GRID_SIZE + ... + GRID_SIZE (n
\* times, as lines 85-86 accumulate it) is below the double nearest to the
\* decimal lo + n * GRID_SIZE.  For the others the two are equal.
AccumulatedBelow ==
    {<<36572811, n>> : n \in 3..5} \cup {<<8885523, n>> : n \in 1..5}
        \cup {<<8887523, n>> : n \in 2..5}

\* lat < max_lat (lon < max_lon) of lines 55 and 57, where the left side has
\* been accumulated from lo in n steps: the comparison of the decimals, but
\* for a sum that should equal the bound and falls below it.
loop_below(lo, n, hi) ==
    \/ lo + n * GRID_SIZE < hi
    \/ lo + n * GRID_SIZE = hi /\ <<lo, n>> \in AccumulatedBelow

\* The steps taken from lo to x.
steps(lo, x) == (x - lo) \div GRID_SIZE

\* Lines 36-40: the bounding box of the points, each a pair (lat, lon).
bounding_box(ppi_points) ==
    [min_lat |-> MinOf({ppi_points[k][1] : k \in 1..Len(ppi_points)}),
     max_lat |-> MaxOf({ppi_points[k][1] : k \in 1..Len(ppi_points)}),
     min_lon |-> MinOf({ppi_points[k][2] : k \in 1..Len(ppi_points)}),
     max_lon |-> MaxOf({ppi_points[k][2] : k \in 1..Len(ppi_points)})]

\* Lines 22-56: the box, the connection, the empty feature list, the first
\* row.  A run starts when no other run is open.
GenStart(points, max_runs) ==
    /\ gen_pc = "idle"
    /\ ing_pc = "idle"
    /\ agg_pc = "idle"
    /\ gen_runs < max_runs
    /\ gen_runs' = gen_runs + 1
    /\ \E ppi_points \in points :
          /\ gen_box' = bounding_box(ppi_points)
          /\ gen_lat' = bounding_box(ppi_points).min_lat
          /\ gen_lon' = bounding_box(ppi_points).min_lon
    /\ features' = <<>>
    /\ gen_tx' = grid_100m
    /\ gen_pc' = "loop"
    /\ UNCHANGED grid_100m

\* The cell step that leaves out of the document a cell whose identifier is
\* stored already.
GenCell_skip_stored ==
    /\ gen_pc = "loop"
    /\ loop_below(gen_box.min_lat, steps(gen_box.min_lat, gen_lat),
                  gen_box.max_lat)
    /\ loop_below(gen_box.min_lon, steps(gen_box.min_lon, gen_lon),
                  gen_box.max_lon)
    /\ LET feature == feature_of(gen_lat, gen_lon)
       IN  /\ gen_tx' = grid_insert_do_nothing(gen_tx,
                            grid_row(feature.geohash, feature.center_lat,
                                     feature.center_lon, Some(feature.geometry)))
           /\ features' = IF feature.geohash \in GridKeys(gen_tx)
                          THEN features ELSE Append(features, feature)
    /\ gen_lon' = gen_lon + GRID_SIZE
    /\ UNCHANGED <<grid_100m, gen_pc, gen_box, gen_lat, gen_runs>>

\* Lines 57-85: one pass of the inner loop.
GenCell ==
    /\ gen_pc = "loop"
    /\ loop_below(gen_box.min_lat, steps(gen_box.min_lat, gen_lat),
                  gen_box.max_lat)
    /\ loop_below(gen_box.min_lon, steps(gen_box.min_lon, gen_lon),
                  gen_box.max_lon)
    /\ LET feature == feature_of(gen_lat, gen_lon)
       IN  /\ gen_tx' = grid_insert_do_nothing(gen_tx,
                            grid_row(feature.geohash, feature.center_lat,
                                     feature.center_lon, Some(feature.geometry)))
           /\ features' = Append(features, feature)
    /\ gen_lon' = gen_lon + GRID_SIZE
    /\ UNCHANGED <<grid_100m, gen_pc, gen_box, gen_lat, gen_runs>>

\* Lines 55-57, 86: the inner loop is over, the next row begins.
GenRow ==
    /\ gen_pc = "loop"
    /\ loop_below(gen_box.min_lat, steps(gen_box.min_lat, gen_lat),
                  gen_box.max_lat)
    /\ ~loop_below(gen_box.min_lon, steps(gen_box.min_lon, gen_lon),
                  gen_box.max_lon)
    /\ gen_lat' = gen_lat + GRID_SIZE
    /\ gen_lon' = gen_box.min_lon
    /\ UNCHANGED <<grid_100m, gen_pc, gen_box, features, gen_tx, gen_runs>>

\* Lines 88-99: the outer loop is over; commit, close, write the document.
GenCommit ==
    /\ gen_pc = "loop"
    /\ ~loop_below(gen_box.min_lat, steps(gen_box.min_lat, gen_lat),
                  gen_box.max_lat)
    /\ grid_100m' = gen_tx
    /\ gen_pc' = "done"
    /\ UNCHANGED <<gen_box, gen_lat, gen_lon, features, gen_tx, gen_runs>>

\* The process has ended; the document stays on disk.
GenClose ==
    /\ gen_pc = "done"
    /\ gen_pc' = "idle"
    /\ gen_lat' = 0
    /\ gen_lon' = 0
    /\ gen_tx' = {}
    /\ UNCHANGED <<grid_100m, gen_box, features, gen_runs>>

(***************************************************************************)
(* scripts/ingest_climate.py                                               *)
(***************************************************************************)
\* The chunk size of the bulk insert (500 in the source), scaled down so
\* that a batch of the model spans several chunks.
batch_size == 1

\* The tuple ingest_climate_daily appends for one day (lines 116-126).
daily_tuple(geohash, day, et0) ==
    [geohash |-> geohash, date |-> day.date, tmin |-> day.tmin,
     tmax |-> day.tmax, radiation |-> day.radiation, rain |-> day.rain,
     rh |-> day.rh, wind |-> day.wind, et0 |-> et0]

day_et0(day) == compute_et0(day.tmin, day.tmax, day.radiation, day.rh, day.wind)

\* The loops of lines 101-126: results in order, then days in order.
RECURSIVE days_of(_, _)
days_of(geohash, weather_data) ==
    IF weather_data = <<>> THEN <<>>
    ELSE <<daily_tuple(geohash, Head(weather_data),
                       day_et0(Head(weather_data)).value)>>
         \o days_of(geohash, Tail(weather_data))

RECURSIVE daily_data_of(_)
daily_data_of(results) ==
    IF results = <<>> THEN <<>>
    ELSE days_of(Head(results).geohash, Head(results).weather_data)
         \o daily_data_of(Tail(results))

\* compute_et0 raises for some day of the input: the exception leaves
\* ingest_climate_daily before anything is written.
et0_raises(results) ==
    \E i \in 1..Len(results) :
        \E j \in 1..Len(results[i].weather_data) :
            day_et0(results[i].weather_data[j]).exc # ""

KeyOf(r) == <<r.geohash, r.date>>

Keys(rows) == {KeyOf(r) : r \in rows}

\* No de-duplication at all.
unique_data_all(daily_data, acc) == daily_data

\* The dict overwritten on every record: the last record of a key is kept,
\* at the place of the first.
RECURSIVE unique_data_last(_, _)
unique_data_last(daily_data, acc) ==
    IF daily_data = <<>> THEN acc
    ELSE LET record == Head(daily_data)
         IN  IF \E k \in 1..Len(acc) : KeyOf(acc[k]) = KeyOf(record)
             THEN unique_data_last(Tail(daily_data),
                      [k \in 1..Len(acc) |->
                          IF KeyOf(acc[k]) = KeyOf(record) THEN record ELSE acc[k]])
             ELSE unique_data_last(Tail(daily_data), Append(acc, record))

\* Lines 130-136: unique_data keeps a record when its key is not in the
\* dict yet; a dict lists its values in insertion order.
RECURSIVE unique_data(_, _)
unique_data(daily_data, acc) ==
    IF daily_data = <<>> THEN acc
    ELSE LET record == Head(daily_data)
         IN  IF \E k \in 1..Len(acc) : KeyOf(acc[k]) = KeyOf(record)
             THEN unique_data(Tail(daily_data), acc)
             ELSE unique_data(Tail(daily_data), Append(acc, record))

Min(a, b) == IF a < b THEN a ELSE b

\* daily_data_unique[i:i + batch_size]
chunk_at(unique, i) ==
    {unique[k] : k \in (i + 1)..Min(i + batch_size, Len(unique))}

\* ON CONFLICT (geohash, date) DO UPDATE: a row of the batch replaces the
\* stored row with its key.
insert_do_update(table, batch) ==
    {r \in table : KeyOf(r) \notin Keys(batch)} \cup batch

\* INSERT ... ON CONFLICT (geohash, date) DO NOTHING: the table with the rows
\* of the batch whose key is not taken.
insert_do_nothing(table, batch) ==
    table \cup {r \in batch : KeyOf(r) \notin Keys(table)}

\* Python's truth of an optional number: absent and 0 are false.
Truthy(x) == ~IsNone(x) /\ Val(x) # 0

\* Lines 64-71: the polygon of the first ring of bbox, closed, when there
\* is one with four points or more.
geom_of(bbox) ==
    IF bbox # <<>> /\ Len(bbox[1]) >= 4
    THEN LET coords == bbox[1]
         IN  Some(IF coords[1] # coords[Len(coords)]
                  THEN Append(coords, coords[1]) ELSE coords)
    ELSE None

\* Lines 56-80: the first entry of each identifier, among the entries that
\* have an identifier and a latitude and a longitude that are not 0.
RECURSIVE grid_data_of(_, _)
grid_data_of(results, unique_grid) ==
    IF results = <<>> THEN unique_grid
    ELSE LET result == Head(results)
         IN  IF /\ result.geohash # None
                /\ Truthy(result.latitude)
                /\ Truthy(result.longitude)
                /\ \A k \in 1..Len(unique_grid) :
                       unique_grid[k].geohash # result.geohash
             THEN grid_data_of(Tail(results),
                      Append(unique_grid,
                             grid_row(result.geohash, Val(result.latitude),
                                      Val(result.longitude), geom_of(result.bbox))))
             ELSE grid_data_of(Tail(results), unique_grid)

\* Lines 83-91: INSERT ... ON CONFLICT (geohash) DO UPDATE.
grid_upsert_do_update(table, grid_data) ==
    LET rows == {grid_data[k] : k \in 1..Len(grid_data)}
    IN  {r \in table : r.geohash \notin GridKeys(rows)} \cup rows

\* The runs of ingest_climate.py a behaviour holds.
MaxIngestRuns == 2

\* main() up to the first insert: the loops, the de-duplication, the cursor.
\* Runs of the two programs follow one another (the pipeline's phases are
\* sequential): a run starts when no other run is open.
\* With no_grid (--no-grid) the grid table is left alone; otherwise
\* ingest_grid_points upserts and commits before the daily records are built
\* (lines 194-195, 92).
IngestStart(inputs, max_runs, no_grid) ==
    /\ ing_pc = "idle"
    /\ agg_pc = "idle"
    /\ gen_pc = "idle"
    /\ ing_runs < max_runs
    /\ ing_runs' = ing_runs + 1
    /\ \E results \in inputs :
          /\ grid_results' = IF no_grid THEN <<>> ELSE results
          /\ grid_100m' = IF no_grid THEN grid_100m
                          ELSE grid_upsert_do_update(grid_100m,
                                   grid_data_of(results, <<>>))
          /\ IF et0_raises(results)
             THEN \* main's except: rollback of an empty transaction
                  /\ ing_pc' = "failed"
                  /\ ing_daily' = <<>>
                  /\ ing_unique' = <<>>
             ELSE LET daily_data == daily_data_of(results)
                  IN  /\ ing_daily' = daily_data
                      /\ ing_unique' = unique_data(daily_data, <<>>)
                      /\ ing_pc' = IF daily_data = <<>> THEN "done" ELSE "insert"
    /\ ing_i' = 0
    /\ ing_total' = 0
    /\ ing_tx' = climate_daily
    /\ UNCHANGED <<climate_daily, daily_stamp>>

\* The chunk step with total_inserted counting the rows the insert added.
IngestChunk_counts_added ==
    /\ ing_pc = "insert"
    /\ LET batch == chunk_at(ing_unique, ing_i)
       IN  /\ ing_tx' = insert_do_nothing(ing_tx, batch)
           /\ ing_total' = ing_total
                  + Cardinality(insert_do_nothing(ing_tx, batch) \ ing_tx)
    /\ ing_i' = ing_i + batch_size
    /\ ing_pc' = IF ing_i + batch_size < Len(ing_unique) THEN "insert" ELSE "commit"
    /\ UNCHANGED <<climate_daily, daily_stamp, grid_100m, ing_daily, ing_unique,
                   ing_runs, grid_results>>

\* One pass of the loop of lines 145-156: the insert of one chunk succeeds.
IngestChunk ==
    /\ ing_pc = "insert"
    /\ LET batch == chunk_at(ing_unique, ing_i)
       IN  /\ ing_tx' = insert_do_nothing(ing_tx, batch)
           /\ ing_total' = ing_total + Cardinality(batch)
    /\ ing_i' = ing_i + batch_size
    /\ ing_pc' = IF ing_i + batch_size < Len(ing_unique) THEN "insert" ELSE "commit"
    /\ UNCHANGED <<climate_daily, daily_stamp, grid_100m, ing_daily, ing_unique,
                   ing_runs, grid_results>>

\* The insert of the chunk at ing_i raises (a persistence fault): main's
\* except rolls the transaction back (lines 204-206).
IngestChunkFails ==
    /\ ing_pc = "insert"
    /\ ing_pc' = "failed"
    /\ ing_tx' = climate_daily
    /\ UNCHANGED <<climate_daily, daily_stamp, grid_100m, ing_daily, ing_unique, ing_i,
                   ing_total, ing_runs, grid_results>>

\* conn.commit() of line 158, after the last chunk.
IngestCommit ==
    /\ ing_pc = "commit"
    /\ climate_daily' = ing_tx
    /\ daily_stamp' = IF ing_tx = climate_daily THEN daily_stamp ELSE now
    /\ UNCHANGED ing_tx
    /\ ing_pc' = "done"
    /\ UNCHANGED <<grid_100m, ing_daily, ing_unique, ing_i, ing_total, ing_runs,
                   grid_results>>

\* finally: conn.close(); the process ends.
IngestClose ==
    /\ ing_pc \in {"done", "failed"}
    /\ ing_pc' = "idle"
    /\ ing_daily' = <<>>
    /\ ing_unique' = <<>>
    /\ ing_i' = 0
    /\ ing_total' = 0
    /\ ing_tx' = {}
    /\ grid_results' = <<>>
    /\ UNCHANGED <<climate_daily, daily_stamp, grid_100m, ing_runs>>

(***************************************************************************)
(* scripts/aggregate_7days.py                                              *)
(***************************************************************************)
\* timedelta(days=6)
WindowSpan == 6

\* min(args.backfill, 30)
BackfillCap == 30

\* WHERE date BETWEEN start_date AND target_date
in_window(rows, target_date) ==
    {r \in rows : r.date >= target_date - WindowSpan /\ r.date <= target_date}

RECURSIVE SumOf(_, _)
SumOf(rows, field) ==
    IF rows = {} THEN 0
    ELSE LET r == CHOOSE x \in rows : TRUE
         IN  Val(r[field]) + SumOf(rows \ {r}, field)

\* ROUND(AVG(field)::numeric, 2): the mean of the non-null values, NULL
\* when there is none.
sql_avg(rows, field) ==
    LET known == {r \in rows : ~IsNone(r[field])}
    IN  IF known = {} THEN None
        ELSE Some(RoundDiv(SumOf(known, field), Cardinality(known)))

\* ROUND(SUM(field)::numeric, 2)
sql_sum(rows, field) ==
    LET known == {r \in rows : ~IsNone(r[field])}
    IN  IF known = {} THEN None ELSE Some(SumOf(known, field))

\* The rows the query of lines 117-131 aggregates for one cell.
cell_rows(daily, geohash, target_date) ==
    {r \in in_window(daily, target_date) :
        r.geohash = geohash /\ ~IsNone(r.tmin)}

\* A strict comparison.
more_days(days_count, min_days_required) == days_count > min_days_required

\* Line 141.
enough_days(days_count, min_days_required) == days_count >= min_days_required

\* The tuple of lines 142-153, as the row the upsert stores.
weekly_tuple(daily, geohash, target_date, stamp) ==
    LET rows == cell_rows(daily, geohash, target_date)
    IN  [geohash |-> geohash,
         start_date |-> target_date - WindowSpan,
         end_date |-> target_date,
         avg_tmin |-> sql_avg(rows, "tmin"),
         avg_tmax |-> sql_avg(rows, "tmax"),
         avg_radiation |-> sql_avg(rows, "radiation"),
         total_rain |-> sql_sum(rows, "rain"),
         avg_rh |-> sql_avg(rows, "rh"),
         avg_wind |-> sql_avg(rows, "wind"),
         avg_et0 |-> sql_avg(rows, "et0"),
         updated_at |-> stamp]

\* weekly_data of aggregate_7days(conn, target_date, min_days_required):
\* one tuple per cell that has a record in the window and enough days.
weekly_data_of(daily, target_date, min_days_required, stamp) ==
    LET grid_points == {r.geohash : r \in in_window(daily, target_date)}
    IN  {weekly_tuple(daily, g, target_date, stamp) :
            g \in {p \in grid_points :
                     enough_days(Cardinality(cell_rows(daily, p, target_date)),
                                 min_days_required)}}

WeekKey(w) == <<w.geohash, w.end_date>>

\* An insert without a conflict clause on a table without a key.
upsert_insert_all(table, batch) == table \cup batch

\* ON CONFLICT (geohash, end_date) DO NOTHING: a stored row stays.
upsert_do_nothing(table, batch) ==
    table \cup {b \in batch : WeekKey(b) \notin {WeekKey(w) : w \in table}}

\* INSERT ... ON CONFLICT (geohash, end_date) DO UPDATE SET ...: a row of the
\* batch takes the place of the stored row with its key.
upsert_do_update(table, batch) ==
    {w \in table : WeekKey(w) \notin {WeekKey(b) : b \in batch}} \cup batch

\* range(n) mapped through f, as a sequence.
RECURSIVE backfill_dates(_, _, _, _)
backfill_dates(i, n, max_date, min_date) ==
    IF i >= n THEN <<>>
    ELSE (IF max_date - i >= min_date THEN <<max_date - i>> ELSE <<>>)
         \o backfill_dates(i + 1, n, max_date, min_date)

\* The dates of a run whose back-fill takes args.backfill days, uncapped.
dates_of_uncapped(args, min_date, max_date) ==
    IF args.auto THEN <<max_date>>
    ELSE IF ~IsNone(args.date) THEN
        LET target_date == Min(Val(args.date), max_date)
        IN  IF target_date >= min_date THEN <<target_date>> ELSE <<>>
    ELSE IF args.backfill > 0 THEN
        backfill_dates(0, args.backfill, max_date, min_date)
    ELSE <<max_date>>

\* Lines 260-291: the dates a run processes.
dates_of(args, min_date, max_date) ==
    IF args.auto THEN <<max_date>>
    ELSE IF ~IsNone(args.date) THEN
        LET target_date == Min(Val(args.date), max_date)
        IN  IF target_date >= min_date THEN <<target_date>> ELSE <<>>
    ELSE IF args.backfill > 0 THEN
        backfill_dates(0, Min(args.backfill, BackfillCap), max_date, min_date)
    ELSE <<max_date>>

\* main() without the check of lines 251-253: over an empty table the run
\* goes on to its end with nothing to aggregate.
AggStart_unchecked(commands) ==
    /\ agg_pc = "idle"
    /\ ing_pc = "idle"
    /\ \E args \in commands :
          /\ min_days' = args.min_days
          /\ agg_date' = args.date
          /\ agg_backfill' = args.backfill
          /\ IF climate_daily = {}
             THEN /\ agg_pc' = "done"
                  /\ dates_to_process' = <<>>
             ELSE LET all_dates == {r.date : r \in climate_daily}
                      dates == dates_of(args, MinOf(all_dates), MaxOf(all_dates))
                  IN  /\ dates_to_process' = dates
                      /\ agg_pc' = IF dates = <<>> THEN "done" ELSE "dates"
    /\ UNCHANGED <<climate_7days, now>>

\* main() up to the loop over the dates (lines 246-291).
AggStart(commands) ==
    /\ agg_pc = "idle"
    /\ ing_pc = "idle"
    /\ \E args \in commands :
          /\ min_days' = args.min_days
          /\ agg_date' = args.date
          /\ agg_backfill' = args.backfill
          /\ IF climate_daily = {}
             THEN \* check_data_availability returns False: sys.exit(1)
                  /\ agg_pc' = "exit"
                  /\ dates_to_process' = <<>>
             ELSE LET all_dates == {r.date : r \in climate_daily}
                      dates == dates_of(args, MinOf(all_dates), MaxOf(all_dates))
                  IN  /\ dates_to_process' = dates
                      /\ agg_pc' = IF dates = <<>> THEN "done" ELSE "dates"
    /\ UNCHANGED <<climate_7days, now>>

\* One pass of the loop of lines 295-298: aggregate_7days returns.
AggDate(max_clock) ==
    /\ agg_pc = "dates"
    /\ now < max_clock
    /\ now' = now + 1
    /\ LET target_date == Head(dates_to_process)
           weekly_data ==
               weekly_data_of(climate_daily, target_date, min_days, now + 1)
       IN  climate_7days' = upsert_do_update(climate_7days, weekly_data)
    /\ dates_to_process' = Tail(dates_to_process)
    /\ agg_pc' = IF Len(dates_to_process) > 1 THEN "dates" ELSE "done"
    /\ UNCHANGED <<min_days, agg_date, agg_backfill>>

\* A failure that leaves the rows of its date in the store (a connection in
\* autocommit mode).
AggDateFails_persisted ==
    /\ agg_pc = "dates"
    /\ agg_pc' = "failed"
    /\ climate_7days' =
           upsert_do_update(climate_7days,
               weekly_data_of(climate_daily, Head(dates_to_process), min_days,
                              now))
    /\ UNCHANGED <<now, dates_to_process, min_days, agg_date, agg_backfill>>

\* aggregate_7days raises (a persistence fault): nothing of the date was
\* committed, main's except rolls back and the run ends (lines 310-317).
AggDateFails ==
    /\ agg_pc = "dates"
    /\ agg_pc' = "failed"
    /\ UNCHANGED <<climate_7days, now, dates_to_process, min_days, agg_date, agg_backfill>>

\* finally: conn.close(); the process ends.
AggClose ==
    /\ agg_pc \in {"done", "failed", "exit"}
    /\ agg_pc' = "idle"
    /\ dates_to_process' = <<>>
    /\ min_days' = 0
    /\ agg_date' = None
    /\ agg_backfill' = 0
    /\ UNCHANGED <<climate_7days, now>>

(***************************************************************************)
(* Initial states                                                          *)
(***************************************************************************)
InitEt0Idle ==
    /\ et0_pc = "idle"
    /\ et0_day = WithDate(1, DayA)
    /\ et0_out = Return(None)
    /\ et0_row = <<>>

InitStore ==
    /\ climate_daily = {}
    /\ climate_7days = {}
    /\ now = 0
    /\ daily_stamp = 0
    /\ grid_100m = {}

InitIngest ==
    /\ ing_pc = "idle"
    /\ ing_daily = <<>>
    /\ ing_unique = <<>>
    /\ ing_i = 0
    /\ ing_total = 0
    /\ ing_tx = {}
    /\ ing_runs = 0
    /\ grid_results = <<>>

InitGen ==
    /\ gen_pc = "idle"
    /\ gen_box = [min_lat |-> 0, max_lat |-> 0, min_lon |-> 0, max_lon |-> 0]
    /\ gen_lat = 0
    /\ gen_lon = 0
    /\ features = <<>>
    /\ gen_tx = {}
    /\ gen_runs = 0

InitAgg ==
    /\ agg_pc = "idle"
    /\ dates_to_process = <<>>
    /\ min_days = 0
    /\ agg_date = None
    /\ agg_backfill = 0

NoReply == [kind |-> "none", present |-> {}, series |-> <<>>]

InitFetchIdle ==
    /\ fetch_pc = "idle"
    /\ futures = <<>>
    /\ fetch_i = 0
    /\ response = NoReply
    /\ all_results = <<>>
    /\ successful_fetches = 0
    /\ saved = <<>>

(***************************************************************************)
(* SpecIngest: one run of ingest_climate.py over a batch with duplicate     *)
(* keys and several chunks.                                                *)
(***************************************************************************)
MaxResults == 2

MaxDays == 1

\* Three days of one date, one of them failing the ET0 computation, and a
\* day of another date.
IngestDays == {WithDate(1, v) : v \in {DayA, DayB, DayX}} \cup {WithDate(2, DayA)}

IngestResults ==
    SeqsOf([geohash : Cells, weather_data : SeqsOf(IngestDays, 0, MaxDays)],
           1, MaxResults)

InitIngestSpec == InitEt0Idle /\ InitStore /\ InitIngest /\ InitAgg /\ InitFetchIdle
    /\ InitGen

NextIngest ==
    \/ IngestStart(IngestResults, MaxIngestRuns, TRUE) /\ UNCHANGED <<et0_vars, agg_vars, fetch_vars, gen_vars>>
    \/ IngestChunk /\ UNCHANGED <<et0_vars, agg_vars, fetch_vars, gen_vars>>
    \/ IngestChunkFails /\ UNCHANGED <<et0_vars, agg_vars, fetch_vars, gen_vars>>
    \/ IngestCommit /\ UNCHANGED <<et0_vars, agg_vars, fetch_vars, gen_vars>>

SpecIngest == InitIngestSpec /\ [][NextIngest]_vars

(***************************************************************************)
(* Spec: ingestion runs and aggregation runs over the same store.          *)
(***************************************************************************)
MaxSeries == 1

MaxClock == 2

MaxBackfill == 2

MaxMinDays == 2

\* The dates of the store's records: the first and the last day of one
\* window.
Dates == {1, 1 + WindowSpan}

StoreDays == {WithDate(d, v) : d \in Dates, v \in {DayA, DayN}}

\* The input of a run: the series of one cell.
StoreResults ==
    SeqsOf([geohash : Cells, weather_data : SeqsOf(StoreDays, 0, MaxSeries)],
           1, 1)

\* The command lines of the aggregator.
AggArgs ==
    {[auto |-> a, date |-> d, backfill |-> b, min_days |-> m] :
        a \in BOOLEAN, d \in Opt({0} \cup Dates \cup {2 + WindowSpan}),
        b \in 0..MaxBackfill, m \in 0..MaxMinDays}

\* One option at a time: --auto, --date D, --backfill N, or none.
AggCommands ==
    {args \in AggArgs :
        Cardinality({o \in {"auto", "date", "backfill"} :
            \/ o = "auto" /\ args.auto
            \/ o = "date" /\ ~IsNone(args.date)
            \/ o = "backfill" /\ args.backfill > 0}) <= 1}

Init == InitEt0Idle /\ InitStore /\ InitIngest /\ InitAgg /\ InitFetchIdle
    /\ InitGen

Next ==
    \/ IngestStart(StoreResults, MaxIngestRuns, TRUE) /\ UNCHANGED <<et0_vars, agg_vars, fetch_vars, gen_vars>>
    \/ IngestChunk /\ UNCHANGED <<et0_vars, agg_vars, fetch_vars, gen_vars>>
    \/ IngestChunkFails /\ UNCHANGED <<et0_vars, agg_vars, fetch_vars, gen_vars>>
    \/ IngestCommit /\ UNCHANGED <<et0_vars, agg_vars, fetch_vars, gen_vars>>
    \/ IngestClose /\ UNCHANGED <<et0_vars, agg_vars, fetch_vars, gen_vars>>
    \/ AggStart(AggCommands) /\ UNCHANGED <<et0_vars, ing_vars, fetch_vars, gen_vars,
                     climate_daily, daily_stamp, grid_100m>>
    \/ AggDate(MaxClock) /\ UNCHANGED <<et0_vars, ing_vars, fetch_vars, gen_vars,
                     climate_daily, daily_stamp, grid_100m>>
    \/ AggDateFails /\ UNCHANGED <<et0_vars, ing_vars, fetch_vars, gen_vars,
                     climate_daily, daily_stamp, grid_100m>>
    \/ AggClose /\ UNCHANGED <<et0_vars, ing_vars, fetch_vars, gen_vars,
                     climate_daily, daily_stamp, grid_100m>>

Spec == Init /\ [][Next]_vars

(***************************************************************************)
(* SpecFetch: one fetch run over the grid points.                          *)
(***************************************************************************)
GridPoints == 2

MaxFetchDays == 1

\* A known value of each series.
KnownValue ==
    [p \in ParamSet |->
        CASE p = "T2M_MIN" -> 1550
          [] p = "T2M_MAX" -> 2830
          [] p = "ALLSKY_SFC_SW_DWN" -> 2250
          [] p = "PRECTOTCORR" -> 120
          [] p = "RH2M" -> 6500
          [] OTHER -> 210]

\* The series that carry the sentinel on a day: none, one of the six, or all.
SentinelSets == {{}, ParamSet} \cup {{p} : p \in ParamSet}

\* Complete replies: every value of every series is known or the sentinel.
FullReplies ==
    UNION {
        {[kind |-> "ok", present |-> ParamSet,
          series |-> [p \in ParamSet |->
                        [j \in 1..n |-> IF p \in mask[j] THEN Sentinel
                                        ELSE KnownValue[p]]]] :
            mask \in [1..n -> SentinelSets]} :
        n \in 0..MaxFetchDays}

\* Replies whose parameter object lacks one series.
PartialReplies ==
    {[kind |-> "ok", present |-> ParamSet \ {p},
      series |-> [q \in ParamSet |-> <<KnownValue[q]>>]] : p \in ParamSet}

FailedReplies ==
    {[kind |-> k, present |-> {}, series |-> <<>>] :
        k \in RequestErrors \cup {"not_json", "no_parameter"}}

Replies == FullReplies \cup PartialReplies \cup FailedReplies

InitFetch ==
    /\ InitEt0Idle /\ InitStore /\ InitIngest /\ InitAgg /\ InitGen
    /\ fetch_pc = "pool"
    /\ futures = <<>>
    /\ fetch_i = 0
    /\ response = NoReply
    /\ all_results = <<>>
    /\ successful_fetches = 0
    /\ saved = <<>>

NextFetch ==
    \/ FetchPool(GridPoints)
         /\ UNCHANGED <<et0_vars, ing_vars, agg_vars, gen_vars,
                     climate_daily, daily_stamp, grid_100m>>
    \/ FetchPoint(GridPoints, Replies)
         /\ UNCHANGED <<et0_vars, ing_vars, agg_vars, gen_vars,
                     climate_daily, daily_stamp, grid_100m>>
    \/ FetchSave(GridPoints)
         /\ UNCHANGED <<et0_vars, ing_vars, agg_vars, gen_vars,
                     climate_daily, daily_stamp, grid_100m>>

SpecFetch == InitFetch /\ [][NextFetch]_vars

(***************************************************************************)
(* SpecEt0: compute_et0 applied to one day of a series, and the tuple      *)
(* ingest_climate_daily builds from it.                                    *)
(***************************************************************************)
\* Temperatures: two ordinary ones and the three at which the formula's
\* divisions and its exponential fail (-273, -240, -237.3).
Temperatures == {1550, 2830, -27300, -24000, -23730}

\* tmin and tmax are drawn so that their mean is a tabulated temperature or
\* one of the three failing ones.
TemperaturePairs ==
    {tt \in Opt(Temperatures) \X Opt(Temperatures) :
        \/ IsNone(tt[1]) \/ IsNone(tt[2])
        \/ Val(tt[1]) = Val(tt[2])
        \/ {Val(tt[1]), Val(tt[2])} \subseteq DOMAIN SvpTable}

Et0Days ==
    {[date |-> 1, tmin |-> tt[1], tmax |-> tt[2], radiation |-> rad,
      rain |-> Some(120), rh |-> rh, wind |-> wind] :
        tt \in TemperaturePairs,
        rad \in Opt({-100, 0, 2250}),
        rh \in Opt({6500, 12000}),
        wind \in Opt({-210, 0, 210})}

InitEt0 ==
    /\ InitStore /\ InitIngest /\ InitAgg /\ InitFetchIdle
    /\ InitGen
    /\ et0_pc = "call"
    /\ et0_day \in Et0Days
    /\ et0_out = Return(None)
    /\ et0_row = <<>>

\* Lines 108-114 of ingest_climate.py: the call.
Et0Call ==
    /\ et0_pc = "call"
    /\ et0_out' = day_et0(et0_day)
    /\ et0_pc' = IF day_et0(et0_day).exc # "" THEN "raised" ELSE "returned"
    /\ UNCHANGED <<et0_day, et0_row>>

\* Lines 116-126: the tuple appended to daily_data.
Et0Append ==
    /\ et0_pc = "returned"
    /\ et0_row' = Some(daily_tuple("g1", et0_day, et0_out.value))
    /\ et0_pc' = "appended"
    /\ UNCHANGED <<et0_day, et0_out>>

NextEt0 ==
    \/ Et0Call
         /\ UNCHANGED <<ing_vars, agg_vars, fetch_vars, gen_vars,
                     climate_daily, daily_stamp, grid_100m>>
    \/ Et0Append
         /\ UNCHANGED <<ing_vars, agg_vars, fetch_vars, gen_vars,
                     climate_daily, daily_stamp, grid_100m>>

SpecEt0 == InitEt0 /\ [][NextEt0]_vars

(***************************************************************************)
(* SpecGrid: runs of 02_create_grid.py and runs of ingest_climate.py with   *)
(* grid ingestion enabled, over the same grid table.                       *)
(***************************************************************************)
\* The runs a behaviour holds, of the two programs together.
MaxGridRuns == 2

\* The extent of a box on an axis, in half edges.
MaxExtent == 3

\* The entries of an ingested document.
MaxGridEntries == 1

\* Minimum corners (lat, lon): the corner of the program's perimeter, and a
\* corner two cells east of it, where the centres of the first two cells of
\* a row fall in one geohash cell.
Corners == {<<36572811, 8885523>>, <<36572811, 8887523>>}

\* Extents that are a multiple of the edge length, and extents that are not
\* (as the program's).
Extents == {k * (GRID_SIZE \div 2) : k \in 1..MaxExtent}

\* Two perimeter points, one north-west and one south-east (lines 26-29).
PpiPoints ==
    {<<<<c[1] + e[1], c[2]>>, <<c[1], c[2] + e[2]>>>> :
        c \in Corners, e \in Extents \X Extents}

\* The identifiers of the first cell of each corner.
GridIds == {feature_of(c[1], c[2]).geohash : c \in Corners}

\* Coordinates of an entry: both known, the latitude 0, the longitude absent.
GridCoordinates ==
    {<<Some(36573000), Some(8886000)>>, <<Some(0), Some(8886000)>>,
     <<Some(36573000), None>>}

\* bbox: absent, or the ring of a cell left open.
GridBoxes == {<<>>, <<SubSeq(cell_polygon(36572811, 8885523), 1, 4)>>}

GridEntries ==
    {[geohash |-> g, latitude |-> c[1], longitude |-> c[2], bbox |-> b,
      weather_data |-> w] :
        g \in GridIds, c \in GridCoordinates, b \in GridBoxes,
        w \in {<<>>, <<WithDate(1, DayA)>>}}

GridResults == SeqsOf(GridEntries, 1, MaxGridEntries)

NextGrid ==
    \/ GenStart(PpiPoints, MaxGridRuns - ing_runs)
         /\ UNCHANGED <<et0_vars, ing_vars, agg_vars, fetch_vars,
                        climate_daily, daily_stamp>>
    \/ GenCell
         /\ UNCHANGED <<et0_vars, ing_vars, agg_vars, fetch_vars,
                        climate_daily, daily_stamp>>
    \/ GenRow
         /\ UNCHANGED <<et0_vars, ing_vars, agg_vars, fetch_vars,
                        climate_daily, daily_stamp>>
    \/ GenCommit
         /\ UNCHANGED <<et0_vars, ing_vars, agg_vars, fetch_vars,
                        climate_daily, daily_stamp>>
    \/ GenClose
         /\ UNCHANGED <<et0_vars, ing_vars, agg_vars, fetch_vars,
                        climate_daily, daily_stamp>>
    \/ IngestStart(GridResults, MaxGridRuns - gen_runs, FALSE)
         /\ UNCHANGED <<et0_vars, agg_vars, fetch_vars, gen_vars>>
    \/ IngestChunk /\ UNCHANGED <<et0_vars, agg_vars, fetch_vars, gen_vars>>
    \/ IngestChunkFails /\ UNCHANGED <<et0_vars, agg_vars, fetch_vars, gen_vars>>
    \/ IngestCommit /\ UNCHANGED <<et0_vars, agg_vars, fetch_vars, gen_vars>>
    \/ IngestClose /\ UNCHANGED <<et0_vars, agg_vars, fetch_vars, gen_vars>>

SpecGrid == Init /\ [][NextGrid]_vars

(***************************************************************************)
(* SpecBackfill: one back-fill run of aggregate_7days.py over a store      *)
(* whose dates span more than the cap.                                     *)
(***************************************************************************)
\* The largest --backfill N of a command line.
MaxBackfillDays == 32

\* The largest distance, in days, between the earliest and the latest date
\* of the store.
MaxSpan == 32

\* The record of cell g1 on a date.
RecordOn(d) ==
    daily_tuple("g1", WithDate(d, DayA), day_et0(WithDate(d, DayA)).value)

BackfillCommands ==
    {[auto |-> FALSE, date |-> None, backfill |-> b, min_days |-> 1] :
        b \in 1..MaxBackfillDays}

\* The store holds a record on day 1 and one on a later day.
InitBackfill ==
    /\ InitEt0Idle /\ InitIngest /\ InitAgg /\ InitFetchIdle /\ InitGen
    /\ \E span \in 0..MaxSpan : climate_daily = {RecordOn(1), RecordOn(1 + span)}
    /\ climate_7days = {}
    /\ now = 0
    /\ daily_stamp = 0
    /\ grid_100m = {}

NextBackfill ==
    \/ AggStart(BackfillCommands)
         /\ UNCHANGED <<et0_vars, ing_vars, fetch_vars, gen_vars,
                        climate_daily, daily_stamp, grid_100m>>
    \/ AggDate(MaxBackfillDays)
         /\ UNCHANGED <<et0_vars, ing_vars, fetch_vars, gen_vars,
                        climate_daily, daily_stamp, grid_100m>>

SpecBackfill == InitBackfill /\ [][NextBackfill]_vars

(***************************************************************************)
(* Properties                                                              *)
(***************************************************************************)
KeysUnique(rows) == \A r1, r2 \in rows : KeyOf(r1) = KeyOf(r2) => r1 = r2

\* The commit of an ingestion run.
Committing == ing_pc = "commit" /\ ing_pc' = "done"

\* C1: the store holds exactly one daily record for every (cell, date) key an
\* ingestion run committed, and a stored record never changes afterwards: a
\* later run carrying the key, with the same or with other values, leaves it
\* as the first run wrote it.
C1_DailyFirstWriteWins ==
    [][/\ \A r \in climate_daily : r \in climate_daily'
       /\ KeysUnique(climate_daily')
       /\ Committing =>
            /\ \A k \in 1..Len(ing_unique) :
                   KeyOf(ing_unique[k]) \in Keys(climate_daily')
            /\ \A r \in climate_daily' \ climate_daily :
                   \E k \in 1..Len(ing_unique) : ing_unique[k] = r]_vars

\* A run has committed a batch carrying a stored key with other values, and
\* the stored record is not the batch's.
C1_Witness ==
    /\ ing_pc = "done"
    /\ \E k \in 1..Len(ing_unique) :
          /\ ing_unique[k] \notin climate_daily
          /\ \E r \in climate_daily :
                KeyOf(r) = KeyOf(ing_unique[k]) /\ r.tmin # ing_unique[k].tmin

\* The inputs of ET0 that force an unknown result.
Et0InputUnknown(day) ==
    \/ \E f \in {"tmin", "tmax", "radiation", "rh", "wind"} : IsNone(day[f])
    \/ Val(day.radiation) < 0

\* C2: when one of tmin, tmax, radiation, rh, wind of a day is unknown, or its
\* radiation is negative, compute_et0 returns unknown whatever the other
\* values are, and the daily record built from the day has et0 unknown.
C2_Et0NullPropagation ==
    Et0InputUnknown(et0_day) =>
        /\ et0_pc # "raised"
        /\ et0_pc \in {"returned", "appended"} => et0_out = Return(None)
        /\ et0_pc = "appended" => IsNone(Val(et0_row).et0)

\* A record was built from a day with all five inputs known, a negative
\* radiation and a mean temperature of -237.3: its et0 is unknown.
C2_Witness ==
    /\ et0_pc = "appended"
    /\ \A f \in {"tmin", "tmax", "radiation", "rh", "wind"} : ~IsNone(et0_day[f])
    /\ Val(et0_day.radiation) < 0
    /\ Val(et0_day.tmin) = -23730
    /\ IsNone(Val(et0_row).et0)

\* An aggregate_7days call returns: the step of AggDate.
Aggregating == agg_pc = "dates" /\ now' = now + 1

\* The cell has a daily record in the window ending on target_date.
HasRecords(geohash, target_date) ==
    \E r \in climate_daily :
        /\ r.geohash = geohash
        /\ r.date >= target_date - 6 /\ r.date <= target_date

\* k: the cell's daily records with a known tmin in the window.
ValidDays(geohash, target_date) ==
    Cardinality({r \in climate_daily :
        /\ r.geohash = geohash
        /\ r.date >= target_date - 6 /\ r.date <= target_date
        /\ ~IsNone(r.tmin)})

\* The call wrote an aggregate for the cell: the row carries the call's stamp.
WrittenNow(geohash, target_date) ==
    \E w \in climate_7days' :
        w.geohash = geohash /\ w.end_date = target_date /\ w.updated_at = now'

\* C3 as stated: an aggregate is written for a cell if and only if k >= m.
C3_Original ==
    [][Aggregating =>
        \A c \in Cells :
            WrittenNow(c, Head(dates_to_process))
                <=> ValidDays(c, Head(dates_to_process)) >= min_days]_vars

\* C3, amended: aggregate_7days writes a weekly aggregate for a cell if and
\* only if the cell has at least one daily record in the window
\* [end - 6, end] and k >= m of its records in the window have a known tmin.
C3_CoverageThreshold ==
    [][Aggregating =>
        \A c \in Cells :
            WrittenNow(c, Head(dates_to_process))
                <=> /\ HasRecords(c, Head(dates_to_process))
                    /\ ValidDays(c, Head(dates_to_process)) >= min_days]_vars

\* The latest call wrote an aggregate for one cell and none for another cell
\* that has records in the same window, fewer than m of them with a tmin.
C3_Witness ==
    /\ agg_pc \in {"dates", "done"}
    /\ \E w \in climate_7days :
          /\ w.updated_at = now
          /\ \E c \in Cells :
                /\ HasRecords(c, w.end_date)
                /\ ValidDays(c, w.end_date) < min_days
                /\ \A v \in climate_7days :
                      ~(v.geohash = c /\ v.end_date = w.end_date)

\* Two weekly rows agree on every field but updated_at.
SameAggregate(w, v) == [w EXCEPT !.updated_at = 0] = [v EXCEPT !.updated_at = 0]

\* C4: a run for a window end date replaces the stored aggregate of every
\* qualifying (cell, window end) with the newly computed one, and when the
\* daily records have not changed since an aggregate of that window end was
\* stored, the run leaves every field of it but updated_at as it was.
C4_WeeklyRerunReplaces ==
    [][Aggregating =>
        LET t == Head(dates_to_process)
        IN  /\ \A c \in Cells :
                   HasRecords(c, t) /\ ValidDays(c, t) >= min_days =>
                       {w \in climate_7days' : w.geohash = c /\ w.end_date = t}
                           = {weekly_tuple(climate_daily, c, t, now')}
            /\ \A w \in climate_7days :
                   w.end_date = t /\ w.updated_at > daily_stamp =>
                       \E v \in climate_7days' : SameAggregate(w, v)]_vars

\* Two runs aggregated the same window end over the same daily records: the
\* second, with a higher threshold, refreshed one cell's aggregate and left
\* the other cell's from the first run.
C4_Witness ==
    /\ daily_stamp = 0
    /\ \E w, v \in climate_7days :
          /\ w.end_date = v.end_date
          /\ w.updated_at = 1
          /\ v.updated_at = 2

\* The fields of a fetched day.
DayFields == {"tmin", "tmax", "radiation", "rain", "rh", "wind"}

SeriesOf ==
    [f \in DayFields |->
        CASE f = "tmin" -> "T2M_MIN"
          [] f = "tmax" -> "T2M_MAX"
          [] f = "radiation" -> "ALLSKY_SFC_SW_DWN"
          [] f = "rain" -> "PRECTOTCORR"
          [] f = "rh" -> "RH2M"
          [] OTHER -> "WS2M"]

\* The latest request's series was appended to all_results.
LatestAppended ==
    /\ Len(all_results) > 0
    /\ all_results[Len(all_results)].geohash = fetch_i

\* C5: no record returned by fetch_data carries the sentinel in any of its
\* six fields: a source value equal to the sentinel is returned as unknown
\* and every other source value unchanged.
C5_NoSentinelLeaves ==
    /\ \A e \in 1..Len(all_results) :
          \A j \in 1..Len(all_results[e].weather_data) :
              \A f \in DayFields :
                  all_results[e].weather_data[j][f] # Some(Sentinel)
    /\ LatestAppended =>
          LET days == all_results[Len(all_results)].weather_data
          IN  /\ Len(days) = Len(response.series["T2M_MIN"])
              /\ \A j \in 1..Len(days) : \A f \in DayFields :
                    LET v == response.series[SeriesOf[f]][j]
                    IN  days[j][f] = IF v = -99900 THEN <<>> ELSE <<v>>
    /\ ~IsNone(saved) => Val(saved).results = all_results

\* The document was written with a record whose rain is unknown, from a
\* reply whose rain was the sentinel.
C5_Witness ==
    /\ fetch_pc = "saved"
    /\ LatestAppended
    /\ response.series["PRECTOTCORR"][1] = Sentinel
    /\ IsNone(Val(saved).results[Len(all_results)].weather_data[1].rain)

\* The replies that are a failure of the fetch of one cell: a network fault
\* or timeout, a non-success response, a body that is not JSON, a payload
\* without the parameter object or without one of the six series.
FailedFetch(reply) ==
    \/ reply.kind \in RequestErrors \cup {"not_json", "no_parameter"}
    \/ reply.kind = "ok" /\ reply.present # ParamSet

\* C6: a failure while fetching one cell yields an empty series for that
\* cell only; the run goes on to the remaining cells and writes the document.
C6_FetchFailureIsolated ==
    FailedFetch(response) =>
        /\ fetch_pc # "crashed"
        /\ ~LatestAppended

\* C7: when the write of a chunk fails, the records of the chunks written
\* before it in the same run remain persisted after the rollback.
C7_EarlierChunksPersist ==
    ing_pc = "failed" =>
        \A k \in 1..Min(ing_i, Len(ing_unique)) :
            KeyOf(ing_unique[k]) \in Keys(climate_daily)

\* The first entry of daily_data with the key of entry j.
FirstWithKey(j) ==
    ing_daily[CHOOSE i \in 1..j :
        /\ KeyOf(ing_daily[i]) = KeyOf(ing_daily[j])
        /\ \A h \in 1..(i - 1) : KeyOf(ing_daily[h]) # KeyOf(ing_daily[j])]

\* The last one.
LastWithKey(j) ==
    ing_daily[CHOOSE i \in j..Len(ing_daily) :
        /\ KeyOf(ing_daily[i]) = KeyOf(ing_daily[j])
        /\ \A h \in (i + 1)..Len(ing_daily) :
               KeyOf(ing_daily[h]) # KeyOf(ing_daily[j])]

\* C8: for every key of the batch, exactly one record is handed to the
\* insert, the first entry with the key in iteration order, and after the
\* commit the store holds exactly one record for the key.
C8_OneRecordPerKey ==
    \A j \in 1..Len(ing_daily) :
        LET kept == {k \in 1..Len(ing_unique) :
                        KeyOf(ing_unique[k]) = KeyOf(ing_daily[j])}
        IN  /\ Cardinality(kept) = 1
            /\ \A k \in kept : ing_unique[k] = FirstWithKey(j)
            /\ ing_pc = "done" =>
                 Cardinality({r \in climate_daily :
                                 KeyOf(r) = KeyOf(ing_daily[j])}) = 1

\* A batch with two different entries for one key was committed: the store
\* holds the first and not the second.
C8_Witness ==
    /\ ing_pc = "done"
    /\ \E i, j \in 1..Len(ing_daily) :
          /\ i < j
          /\ KeyOf(ing_daily[i]) = KeyOf(ing_daily[j])
          /\ ing_daily[i] # ing_daily[j]
          /\ ing_daily[i] = FirstWithKey(j)
          /\ ing_daily[i] \in climate_daily
          /\ ing_daily[j] \notin climate_daily

\* C9 as stated: the entry kept for a key is the last one in batch order.
C9_Original ==
    \A k \in 1..Len(ing_unique) :
        \A j \in 1..Len(ing_daily) :
            KeyOf(ing_daily[j]) = KeyOf(ing_unique[k]) =>
                ing_unique[k] = LastWithKey(j)

\* The position in daily_data of the first entry with the key of record r.
FirstIndex(r) ==
    CHOOSE i \in 1..Len(ing_daily) :
        /\ KeyOf(ing_daily[i]) = KeyOf(r)
        /\ \A h \in 1..(i - 1) : KeyOf(ing_daily[h]) # KeyOf(r)

\* C9, amended: the in-batch de-duplication is a first-write-wins reduction
\* by the composite key (cell, date): the entry kept for a key is the first
\* one in batch order, and the kept entries stay in that order.
C9_FirstWriteWins ==
    /\ Len(ing_unique) = Cardinality({KeyOf(ing_daily[j]) : j \in 1..Len(ing_daily)})
    /\ \A k \in 1..Len(ing_unique) :
          /\ \E j \in 1..Len(ing_daily) : KeyOf(ing_daily[j]) = KeyOf(ing_unique[k])
          /\ ing_unique[k] = ing_daily[FirstIndex(ing_unique[k])]
          /\ \A h \in 1..(k - 1) :
                FirstIndex(ing_unique[h]) < FirstIndex(ing_unique[k])

\* The de-duplication kept the first of two different entries of a key, and
\* the last entry of that key is another record.
C9_Witness ==
    /\ ing_pc = "insert"
    /\ \E k \in 1..Len(ing_unique) : \E j \in 1..Len(ing_daily) :
          /\ KeyOf(ing_daily[j]) = KeyOf(ing_unique[k])
          /\ LastWithKey(j) # ing_unique[k]
          /\ FirstWithKey(j) = ing_unique[k]

\* C10: compute_et0 never raises: an arithmetic fault anywhere in the
\* computation makes it return unknown.
C10_Et0NeverRaises ==
    /\ et0_pc # "raised"
    /\ et0_pc \in {"returned", "appended"} => et0_out.exc = ""

\* C11: whenever compute_et0 returns a known value, the value is >= 0, and
\* the tuple ingestion builds from the day carries no negative et0.
C11_Et0NonNegative ==
    /\ (et0_pc \in {"returned", "appended"} /\ ~IsNone(et0_out.value)) =>
           Val(et0_out.value) >= 0
    /\ (et0_pc = "appended" /\ ~IsNone(Val(et0_row).et0)) =>
           Val(Val(et0_row).et0) >= 0

\* A tuple was built from a day without radiation, with a relative humidity
\* above 100 % and wind, for which the formula is negative: its et0 is 0.
C11_Witness ==
    /\ et0_pc = "appended"
    /\ et0_day.radiation = Some(0)
    /\ et0_day.rh = Some(12000)
    /\ et0_day.wind = Some(210)
    /\ Val(et0_row).et0 = Some(0)

\* C12: an unknown measurement is never an error: a complete reply, whatever
\* values of it are the sentinel, does not end the fetch run.
C12_UnknownIsNoError ==
    (response.kind = "ok" /\ response.present = ParamSet) => fetch_pc # "crashed"

\* The fetch of a cell fails: fetch_data returns an empty series.
EmptySeries(reply) ==
    \/ reply.kind \in RequestErrors \cup {"no_parameter"}
    \/ /\ reply.kind = "ok"
       /\ \/ "T2M_MIN" \notin reply.present
          \/ Len(reply.series["T2M_MIN"]) = 0

\* C13: a cell whose fetch fails adds no entry, any other cell that is
\* fetched adds exactly one entry with its series, and the document written
\* after the n cells holds these n - f entries and reports
\* successful_fetches = n - f and failed_fetches = f.
C13_DocumentCounts ==
    [][/\ fetch_i' = fetch_i + 1 =>
            IF EmptySeries(response') \/ fetch_data(response').exc # ""
            THEN all_results' = all_results
            ELSE /\ Len(all_results') = Len(all_results) + 1
                 /\ all_results'[Len(all_results')].geohash = fetch_i'
                 /\ Len(all_results'[Len(all_results')].weather_data)
                        = Len(response'.series["T2M_MIN"])
       /\ (fetch_pc # "saved" /\ fetch_pc' = "saved") =>
            LET document == Val(saved')
                n == document.metadata.total_grid_points
                f == n - Len(all_results)
            IN  /\ n = fetch_i
                /\ document.results = all_results
                /\ \A e, g \in 1..Len(all_results) :
                       e < g => all_results[e].geohash < all_results[g].geohash
                /\ document.metadata.successful_fetches = n - f
                /\ document.metadata.failed_fetches = f]_vars

\* A document was written after a run in which one cell failed and another
\* was fetched.
C13_Witness ==
    /\ fetch_pc = "saved"
    /\ Val(saved).metadata.failed_fetches >= 1
    /\ Len(Val(saved).results) >= 1
    /\ Val(saved).metadata.successful_fetches = Len(Val(saved).results)

\* C14: the requests of the cells are issued through the worker pool: every
\* task handed to the pool runs the fetch of its cell (and so the requests
\* of distinct cells are in flight together, at most 10 at a time).
C14_PoolIssuesRequests ==
    \A k \in 1..Len(futures) : futures[k] # "TypeError"

\* C18: when the aggregation of one end date fails, the run still processes
\* the end dates queued after it: a run ends as failed only on its last date.
C18_BackfillContinues ==
    agg_pc = "failed" => Len(dates_to_process) <= 1

\* The requested end date lies outside the dates of the daily records.
OutsideRange(d) ==
    /\ climate_daily # {}
    /\ \/ \A r \in climate_daily : r.date < d
       \/ \A r \in climate_daily : r.date > d

\* C19: a run asked for an end date outside the range of the daily records
\* aggregates no window and writes nothing to the weekly aggregates.
C19_OutsideDateWritesNothing ==
    [][(~IsNone(agg_date) /\ OutsideRange(Val(agg_date))) =>
           climate_7days' = climate_7days]_vars

GridKeysUnique(table) ==
    \A r1, r2 \in table : r1.geohash = r2.geohash => r1 = r2

\* The commit of a generation run.
GenCommitting == gen_pc = "loop" /\ gen_pc' = "done"

\* C15: after every step of generation runs and of ingestion runs with grid
\* ingestion, the grid table holds at most one row per identifier; the
\* commit of a generation run leaves every row stored before the run as it
\* was, and the rows it adds have identifiers that were not stored.
C15_GridOneRowPerCell ==
    [][/\ GridKeysUnique(grid_100m')
       /\ GenCommitting =>
            /\ grid_100m \subseteq grid_100m'
            /\ \A r \in grid_100m' \ grid_100m :
                   r.geohash \notin GridKeys(grid_100m)]_vars

\* A generation run has committed over a row that an ingestion run stored
\* with the identifier of a generated cell and another latitude.
C15_Witness ==
    /\ gen_pc = "done"
    /\ ing_runs = 1
    /\ \E r \in grid_100m :
           \E k \in 1..Len(features) :
               /\ features[k].geohash = r.geohash
               /\ features[k].center_lat # r.lat

\* The number of passes of a loop from lo up to hi.
CellsAlong(lo, hi) ==
    Cardinality({n \in 0..((hi - lo) \div GRID_SIZE) : loop_below(lo, n, hi)})

\* The cells of a box, row by row from the minimum corner, latitude outer
\* and longitude inner, as a function of the box alone.
RowMajorCells(b) ==
    LET rows == CellsAlong(b.min_lat, b.max_lat)
        cols == CellsAlong(b.min_lon, b.max_lon)
    IN  [n \in 1..(rows * cols) |->
            LET lat == b.min_lat + ((n - 1) \div cols) * GRID_SIZE
                lon == b.min_lon + ((n - 1) % cols) * GRID_SIZE
            IN  [geometry |-> box(lon, lat, lon + GRID_SIZE, lat + GRID_SIZE),
                 geohash |-> geohash_encode(lat + GRID_SIZE \div 2,
                                            lon + GRID_SIZE \div 2),
                 center_lat |-> lat + GRID_SIZE \div 2,
                 center_lon |-> lon + GRID_SIZE \div 2]]

\* C16: the sequence of cells a finished generation run has produced is a
\* function of its bounding box and of the edge length alone (the cells in
\* row-major order from the minimum corner, with their centres and
\* identifiers), whatever the grid table held before: two runs over one box
\* produce the same sequence.
C16_GridDeterministic ==
    gen_pc = "done" => features = RowMajorCells(gen_box)

\* A second run has produced two rows of two cells while the table holds
\* rows of other cells, stored by the first run.
C16_Witness ==
    /\ gen_pc = "done"
    /\ gen_runs = 2
    /\ Len(features) = 4
    /\ Cardinality(grid_100m) >
           Cardinality({features[k].geohash : k \in 1..Len(features)})

\* The lower-left corners (lat, lon) min + i * GRID_SIZE, min + j * GRID_SIZE
\* that are strictly below the maximum on both axes.
StrictCorners(b) ==
    {<<b.min_lat + i * GRID_SIZE, b.min_lon + j * GRID_SIZE>> :
        i \in {n \in 0..((b.max_lat - b.min_lat) \div GRID_SIZE) :
                  b.min_lat + n * GRID_SIZE < b.max_lat},
        j \in {n \in 0..((b.max_lon - b.min_lon) \div GRID_SIZE) :
                  b.min_lon + n * GRID_SIZE < b.max_lon}}

C20_WrittenCellsHaveGridRow ==
    [][Committing =>
          \A r \in climate_daily' \ climate_daily :
              r.geohash \in GridKeys(grid_100m')]_vars

\* C21: in every state the weekly aggregates hold at most one row per
\* (cell, window end), and the window start of every row is its window end
\* minus 6 days.
C21_WeeklyOneRowPerWindow ==
    /\ \A w, v \in climate_7days : WeekKey(w) = WeekKey(v) => w = v
    /\ \A w \in climate_7days : w.start_date = w.end_date - 6

\* Two aggregation calls have written: the store holds two windows of one
\* cell, the later call's row among them.
C21_Witness ==
    /\ now = 2
    /\ \E w, v \in climate_7days :
          /\ w.geohash = v.geohash
          /\ w.end_date # v.end_date
          /\ w.updated_at = 1
          /\ v.updated_at = 2

\* C22: an aggregation run that starts over an empty daily-record table
\* exits at once with no date queued, and from its start to its end no
\* aggregate is computed and the weekly aggregates stay as they were.
C22_EmptySourceAborts ==
    [][/\ (agg_pc = "idle" /\ agg_pc' # "idle" /\ climate_daily = {}) =>
              /\ agg_pc' = "exit"
              /\ dates_to_process' = <<>>
              /\ climate_7days' = climate_7days
       /\ agg_pc = "exit" =>
              /\ agg_pc' \in {"exit", "idle"}
              /\ climate_7days' = climate_7days
              /\ now' = now]_vars

\* A run has exited on the empty table.
C22_Witness == agg_pc = "exit" /\ climate_daily = {} /\ dates_to_process = <<>>

\* All the daily records of the cell in the window ending on target_date.
WindowRecords(geohash, target_date) ==
    {r \in climate_daily :
        /\ r.geohash = geohash
        /\ r.date >= target_date - 6 /\ r.date <= target_date}

\* C23: every aggregate a call writes carries, for each averaged field, the
\* mean of the field over all the records of the cell in the window that
\* have a value for it, and as total_rain the sum of rain over all the
\* records of the cell in the window that have a rain value, the records
\* without tmin included.
C23_MeansOverAllRecords ==
    [][Aggregating =>
        \A w \in climate_7days' :
            w.updated_at = now' =>
                LET rows == WindowRecords(w.geohash, w.end_date)
                IN  /\ w.avg_tmin = sql_avg(rows, "tmin")
                    /\ w.avg_tmax = sql_avg(rows, "tmax")
                    /\ w.avg_radiation = sql_avg(rows, "radiation")
                    /\ w.avg_rh = sql_avg(rows, "rh")
                    /\ w.avg_wind = sql_avg(rows, "wind")
                    /\ w.avg_et0 = sql_avg(rows, "et0")
                    /\ w.total_rain = sql_sum(rows, "rain")]_vars

\* The step of an ingestion run in which ingest_grid_points runs.
GridIngesting == ing_pc = "idle" /\ ing_pc' # "idle" /\ grid_results' # <<>>

\* The first entry of the run that has the identifier.
FirstEntry(results, geohash) ==
    results[CHOOSE k \in 1..Len(results) :
               /\ results[k].geohash = geohash
               /\ \A j \in 1..(k - 1) : results[j].geohash # geohash]

\* C24: ingest_grid_points leaves in the table one row for every identifier
\* of the run's entries, with the latitude, the longitude and the geometry
\* of the first entry that has the identifier, and adds no row for an
\* identifier that was stored.
C24_GridUpsertFirstWins ==
    [][GridIngesting =>
        LET ids == {grid_results'[k].geohash : k \in 1..Len(grid_results')}
        IN  /\ \A g \in ids :
                   \E r \in grid_100m' :
                       /\ r.geohash = g
                       /\ Some(r.lat) = FirstEntry(grid_results', g).latitude
                       /\ Some(r.lon) = FirstEntry(grid_results', g).longitude
                       /\ r.geom = geom_of(FirstEntry(grid_results', g).bbox)
            /\ GridKeysUnique(grid_100m')
            /\ GridKeys(grid_100m') = GridKeys(grid_100m) \cup ids]_vars

\* C25: when the aggregation of an end date fails, the weekly aggregates
\* are, after the rollback and until the run ends, what they were before the
\* date was begun: no row of the failing date is persisted, and the rows
\* committed for the earlier end dates of the run stay.
C25_FailedDateRolledBack ==
    [][(agg_pc' = "failed" \/ agg_pc = "failed") =>
           climate_7days' = climate_7days]_vars

\* A back-fill run has committed the aggregate of its first end date and
\* failed on the second, which would have had an aggregate.
C25_Witness ==
    /\ agg_pc = "failed"
    /\ Len(dates_to_process) = 1
    /\ \E w \in climate_7days :
          /\ w.updated_at = now
          /\ w.end_date = dates_to_process[1] + 1
    /\ weekly_data_of(climate_daily, dates_to_process[1], min_days, now) # {}
    /\ \A w \in climate_7days : w.end_date # dates_to_process[1]

\* The dates max_date - i, i = 0 .. min(N, 30) - 1, that are not earlier
\* than min_date, in descending order.
TrailingDates(N, min_date, max_date) ==
    LET kept == {i \in 0..(Min(N, 30) - 1) : max_date - i >= min_date}
    IN  [k \in 1..Cardinality(kept) |-> max_date - (k - 1)]

\* A back-fill run starts.
BackfillStarting == agg_pc = "idle" /\ agg_pc' # "idle" /\ agg_backfill' > 0

\* C26: a back-fill run of N > 0 days queues exactly the dates max_date - i
\* for i = 0 .. min(N, 30) - 1 that are not earlier than the earliest stored
\* date, in descending order, at most 30 of them, and processes the queue
\* from its head, one date per call.
C26_BackfillDates ==
    [][/\ BackfillStarting =>
            LET all_dates == {r.date : r \in climate_daily}
            IN  /\ dates_to_process' =
                       TrailingDates(agg_backfill', MinOf(all_dates),
                                     MaxOf(all_dates))
                /\ Len(dates_to_process') <= 30
                /\ \A k \in 2..Len(dates_to_process') :
                       dates_to_process'[k] = dates_to_process'[k - 1] - 1
       /\ (Aggregating /\ agg_backfill > 0) =>
            /\ dates_to_process' = Tail(dates_to_process)
            /\ \A w \in climate_7days' :
                   w.updated_at = now' => w.end_date = Head(dates_to_process)]_vars

\* A back-fill of more than 30 days over a store that spans more than 30
\* days has queued 30 dates.
C26_Witness ==
    /\ agg_pc = "dates"
    /\ agg_backfill > 30
    /\ now = 0
    /\ Len(dates_to_process) = 30
    /\ \E r \in climate_daily : r.date > 31

\* The records of daily that count for the aggregate w: those of its cell
\* with a known tmin in [window end - 6, window end].
Covering(daily, w) ==
    Cardinality({r \in daily :
        /\ r.geohash = w.geohash
        /\ r.date >= w.end_date - 6 /\ r.date <= w.end_date
        /\ ~IsNone(r.tmin)})

\* C27: under every interleaving of ingestion runs and aggregation runs, an
\* aggregate written by a run of threshold m is covered by at least m daily
\* records when it is written, and the number of daily records that cover a
\* stored aggregate never decreases (daily records are only added): with one
\* threshold m for all the runs, every stored aggregate stays covered by at
\* least m records.
C27_AggregatesStayCovered ==
    [][/\ Aggregating =>
            \A w \in climate_7days' :
                w.updated_at = now' => Covering(climate_daily', w) >= min_days
       /\ climate_daily \subseteq climate_daily'
       /\ \A w \in climate_7days \cap climate_7days' :
              Covering(climate_daily', w) >= Covering(climate_daily, w)]_vars

\* An ingestion run has added the second covering record of an aggregate
\* that was stored before.
C27_Witness ==
    /\ Cardinality(climate_daily) = 2
    /\ \E w \in climate_7days :
          /\ Covering(climate_daily, w) = 2
          /\ daily_stamp >= w.updated_at

\* C28: the count a finished ingest_climate_daily reports is the number of
\* distinct (cell, date) keys of its batch, whatever the number of rows the
\* run has added to the store.
C28_CountIsDistinctKeys ==
    ing_pc = "done" =>
        ing_total = Cardinality({KeyOf(ing_daily[k]) : k \in 1..Len(ing_daily)})

\* A second run has reported one record and added none: its key was stored,
\* with other values.
C28_Witness ==
    /\ ing_pc = "done"
    /\ ing_runs = 2
    /\ ing_total = 1
    /\ Cardinality(climate_daily) = 1
    /\ \A k \in 1..Len(ing_unique) :
          /\ KeyOf(ing_unique[k]) \in Keys(climate_daily)
          /\ ing_unique[k] \notin climate_daily

\* The first feature of the collection that has the identifier.
FirstTile(geohash) ==
    features[CHOOSE k \in 1..Len(features) :
                /\ features[k].geohash = geohash
                /\ \A j \in 1..(k - 1) : features[j].geohash # geohash]

\* The row of the tile: its identifier, its centre, its square.
TileRow(f) == grid_row(f.geohash, f.center_lat, f.center_lon, Some(f.geometry))

\* The collection has one feature per tile, in the order of generation.
OneFeaturePerTile ==
    /\ Len(features)
           = CellsAlong(gen_box.min_lat, gen_box.max_lat)
                 * CellsAlong(gen_box.min_lon, gen_box.max_lon)
    /\ \A k \in 1..Len(features) :
           /\ features[k].center_lat
                  = gen_box.min_lat + GRID_SIZE \div 2
                      + ((k - 1) \div CellsAlong(gen_box.min_lon, gen_box.max_lon))
                            * GRID_SIZE
           /\ features[k].center_lon
                  = gen_box.min_lon + GRID_SIZE \div 2
                      + ((k - 1) % CellsAlong(gen_box.min_lon, gen_box.max_lon))
                            * GRID_SIZE

\* C29 as stated: at the commit of a generation run the collection has one
\* feature per tile in generation order, and for every identifier of the
\* collection the store holds a single row, which carries the centre of the
\* first tile of the collection that has the identifier.
C29_Original ==
    [][GenCommitting =>
        /\ OneFeaturePerTile
        /\ \A k \in 1..Len(features) :
               {r \in grid_100m' : r.geohash = features[k].geohash}
                   = {TileRow(FirstTile(features[k].geohash))}]_vars

\* C29, amended: at the commit of a generation run the collection has one
\* feature per tile in generation order, also when two tiles get the same
\* identifier, and for every identifier of the collection the store holds a
\* single row: the row that was stored before the run when there was one,
\* and otherwise the row of the first tile of the collection that has the
\* identifier.  The collection is never smaller than the set of its
\* identifiers.
C29_CollectionAndStore ==
    [][GenCommitting =>
        /\ OneFeaturePerTile
        /\ \A k \in 1..Len(features) :
               LET g == features[k].geohash
               IN  {r \in grid_100m' : r.geohash = g}
                       = IF g \in GridKeys(grid_100m)
                         THEN {r \in grid_100m : r.geohash = g}
                         ELSE {TileRow(FirstTile(g))}
        /\ Len(features)
               >= Cardinality({features[k].geohash : k \in 1..Len(features)})]_vars

\* A run has committed a collection in which two tiles share an identifier:
\* the store holds the row of the first of them and fewer rows than the
\* collection has features.
C29_Witness ==
    /\ gen_pc = "done"
    /\ Len(features) > Cardinality(grid_100m)
    /\ \E j, k \in 1..Len(features) :
          /\ j < k
          /\ features[j].geohash = features[k].geohash
          /\ TileRow(features[j]) \in grid_100m
          /\ TileRow(features[k]) \notin grid_100m

====
